---- MODULE Spec2Model ----
(***************************************************************************)
(* lib/netutil/tls.go: GetServerTLSConfig, the GetCertificate callback it  *)
(* installs, and collectCipherSuites.                                      *)
(*                                                                         *)
(* Strings that the code inspects character by character (cipher suite     *)
(* names, which are lower-cased before the lookup) are sequences of        *)
(* one-character strings.                                                  *)
(***************************************************************************)
EXTENDS Integers, Sequences, FiniteSets, TLC

\* ------------------------------------------------------------------ bounds

\* The clock runs from 1 to MaxClock seconds.
MaxClock == 3
\* The longest tlsCipherSuites list given to the resolver.
MaxLen == 3
\* The largest number of PEM blocks in the CA bundle.
MaxBlocks == 2

\* Goroutines that run handshakes, each calling GetCertificate.
Procs == {"g1", "g2"}
\* Valid cert/key pairs that may be on disk.
Versions == {"certA", "certB"}

\* ------------------------------------------------- strings.ToLower (l.68, l.71)

Upper == <<"A","B","C","D","E","F","G","H","I","J","K","L","M","N","O","P","Q","R","S","T","U","V","W","X","Y","Z">>
Lower == <<"a","b","c","d","e","f","g","h","i","j","k","l","m","n","o","p","q","r","s","t","u","v","w","x","y","z">>

LowerChar(ch) ==
    IF \E i \in 1..Len(Upper) : Upper[i] = ch
    THEN Lower[CHOOSE i \in 1..Len(Upper) : Upper[i] = ch]
    ELSE ch

ToLower(s) == [i \in 1..Len(s) |-> LowerChar(s[i])]

\* ------------------------------------------------------ cipher suite names

TLS_AES_128_GCM_SHA256 == <<"T","L","S","_","A","E","S","_","1","2","8","_","G","C","M","_","S","H","A","2","5","6">>
TLS_AES_256_GCM_SHA384 == <<"T","L","S","_","A","E","S","_","2","5","6","_","G","C","M","_","S","H","A","3","8","4">>
TLS_CHACHA20_POLY1305_SHA256 == <<"T","L","S","_","C","H","A","C","H","A","2","0","_","P","O","L","Y","1","3","0","5","_","S","H","A","2","5","6">>
tls_aes_128_gcm_sha256 == <<"t","l","s","_","a","e","s","_","1","2","8","_","g","c","m","_","s","h","a","2","5","6">>
Tls_Aes_256_Gcm_Sha384 == <<"T","l","s","_","A","e","s","_","2","5","6","_","G","c","m","_","S","h","a","3","8","4">>
bogus_suite == <<"b","o","g","u","s","_","s","u","i","t","e">>
\* A suite of tls.InsecureCipherSuites(), which tls.CipherSuites() does not list.
TLS_RSA_WITH_RC4_128_SHA == <<"T","L","S","_","R","S","A","_","W","I","T","H","_","R","C","4","_","1","2","8","_","S","H","A">>

\* tls.CipherSuites() (l.65): three of the platform's suites, with their IDs
\* 0x1301, 0x1302, 0x1303.
supportedCipherSuites ==
    << [Name |-> TLS_AES_128_GCM_SHA256, ID |-> 4865],
       [Name |-> TLS_AES_256_GCM_SHA384, ID |-> 4866],
       [Name |-> TLS_CHACHA20_POLY1305_SHA256, ID |-> 4867] >>

\* The names a caller may put in tlsCipherSuites.
SuiteNames ==
    { TLS_AES_128_GCM_SHA256, tls_aes_128_gcm_sha256, Tls_Aes_256_Gcm_Sha384,
      TLS_CHACHA20_POLY1305_SHA256, bogus_suite, TLS_RSA_WITH_RC4_128_SHA }

SuiteLists == UNION { [1..n -> SuiteNames] : n \in 0..MaxLen }

\* ------------------------------------------------------------------ errors

NoName == << >>
\* A nil error.
NoErr == [msg |-> "nil", name |-> NoName]
\* fmt.Errorf("got unsupported cipher suite name: %s", gotSuite) (l.73)
UnsupportedErr(gotSuite) == [msg |-> "got unsupported cipher suite name", name |-> gotSuite]

\* --------------------------------------------------- collectCipherSuites

\* The map filled by the loop of l.67-69 over the first n supported suites:
\* a later suite overwrites an earlier one with the same lower-cased name.
RECURSIVE MapOfFirst(_)
MapOfFirst(n) ==
    IF n = 0 THEN << >>
    ELSE LET m == MapOfFirst(n - 1)
             k == ToLower(supportedCipherSuites[n].Name)
         IN  [x \in (DOMAIN m) \cup {k} |->
                 IF x = k THEN supportedCipherSuites[n].ID ELSE m[x]]

supportedCipherSuitesMap == MapOfFirst(Len(supportedCipherSuites))

\* The key looked up for a requested name (l.71).  LookupKeyExact is the
\* lookup without the lower-casing, which C7 must tell apart.
LookupKeyExact(gotSuite) == gotSuite
LookupKey(gotSuite) == ToLower(gotSuite)

\* What l.72-74 return for an unrecognized name, acc being the identifiers
\* collected so far: a nil slice and the error.  UnsupportedKeepsPartial
\* returns the identifiers collected so far instead, which C8 must tell apart.
UnsupportedKeepsPartial(gotSuite, acc) == [cipherSuites |-> acc, err |-> UnsupportedErr(gotSuite)]
Unsupported(gotSuite, acc) == [cipherSuites |-> << >>, err |-> UnsupportedErr(gotSuite)]

\* The loop of l.70-76 from the i-th name on.
RECURSIVE collectFrom(_, _, _)
collectFrom(definedCipherSuites, i, acc) ==
    IF i > Len(definedCipherSuites)
    THEN [cipherSuites |-> acc, err |-> NoErr]
    ELSE LET gotSuite == definedCipherSuites[i]
             key == LookupKey(gotSuite)
         IN  IF key \notin DOMAIN supportedCipherSuitesMap
             THEN Unsupported(gotSuite, acc)
             ELSE collectFrom(definedCipherSuites, i + 1,
                              Append(acc, supportedCipherSuitesMap[key]))

\* collectCipherSuites (l.62-78); the nil slice is the empty sequence.
collectCipherSuites(definedCipherSuites) == collectFrom(definedCipherSuites, 1, << >>)

\* ------------------------------------------------- cert and key files

\* The content of a file that is missing, unreadable or not PEM.
NoFile == ""
FileContents == {NoFile} \cup Versions
\* What the cert and key files may hold together: a valid pair, nothing, or
\* (in the middle of a rotation) a new certificate beside the old key.
FileStates ==
    {<<v, v>> : v \in Versions} \cup {<<NoFile, NoFile>>}
        \cup {<<v, w>> : v \in {"certB"}, w \in {"certA"}}

\* The zero tls.Certificate.
EmptyCert == [Certificate |-> "", PrivateKey |-> ""]
\* The error tls.LoadX509KeyPair returns.
LoadErr == [msg |-> "tls: failed to load X509 key pair", name |-> NoName]

\* tls.LoadX509KeyPair(tlsCertFile, tlsKeyFile) (l.19, l.35) on files holding
\* certPEM and keyPEM: the parsed pair, or the zero Certificate and an error
\* when a file cannot be read or parsed or the key does not match the cert.
LoadX509KeyPair(certPEM, keyPEM) ==
    IF certPEM = NoFile \/ keyPEM = NoFile \/ certPEM # keyPEM
    THEN [c |-> EmptyCert, err |-> LoadErr]
    ELSE [c |-> [Certificate |-> certPEM, PrivateKey |-> keyPEM], err |-> NoErr]

\* ------------------------------------------------------------ CA bundle

\* PEM blocks of a CA bundle: two CA certificates, and a block that is no
\* parseable certificate.
CACerts == {"CA1", "CA2"}
PEMBlocks == CACerts \cup {"junk"}
Bundles == UNION { [1..n -> PEMBlocks] : n \in 0..MaxBlocks }

\* What fs.ReadFileOrHTTP(tlsCAFile) returns (l.50).
CAReads == {[data |-> << >>, failed |-> TRUE]}
             \cup {[data |-> b, failed |-> FALSE] : b \in Bundles}

\* x509.NewCertPool() (l.49) and a nil *x509.CertPool.
NilPool == [nil |-> TRUE, certs |-> {}]
NewCertPool == [nil |-> FALSE, certs |-> {}]

\* cp.AppendCertsFromPEM(caPEM) (l.54): adds every block that parses as a
\* certificate, skips the others, and reports whether it added any.
RECURSIVE AppendFrom(_, _, _, _)
AppendFrom(cp, caPEM, i, ok) ==
    IF i > Len(caPEM) THEN [cp |-> cp, ok |-> ok]
    ELSE IF caPEM[i] \in CACerts
         THEN AppendFrom([cp EXCEPT !.certs = @ \cup {caPEM[i]}], caPEM, i + 1, TRUE)
         ELSE AppendFrom(cp, caPEM, i + 1, ok)

AppendCertsFromPEM(cp, caPEM) == AppendFrom(cp, caPEM, 1, FALSE)

\* ------------------------------------------------- GetServerTLSConfig

\* A nil *tls.Config.
NilConfig ==
    [nil |-> TRUE, MinVersion |-> "", PreferServerCipherSuites |-> FALSE,
     CipherSuites |-> << >>, ClientAuth |-> "", ClientCAs |-> NilPool]

\* The builder's errors: the message of the fmt.Errorf and the error it wraps.
NoBuildErr == [msg |-> "nil", cause |-> NoErr]
BuildErr(msg, cause) == [msg |-> msg, cause |-> cause]

\* The tls.Config literal of l.28-45.
NewConfig(cipherSuites) ==
    [nil |-> FALSE, MinVersion |-> "VersionTLS12", PreferServerCipherSuites |-> TRUE,
     CipherSuites |-> cipherSuites, ClientAuth |-> "NoClientCert", ClientCAs |-> NilPool]

\* The test of l.46.
MTLSWanted(tlsCAFile) == tlsCAFile # ""

\* cfg.ClientCAs = cp (l.57).  ClientCAsDropped leaves the assignment out,
\* which C9 must tell apart.
ClientCAsDropped(cfg, cp) == cfg
WithClientCAs(cfg, cp) == [cfg EXCEPT !.ClientCAs = cp]

\* The return of l.55.  ParseFailedKeepsConfig returns the half-built
\* configuration with the error, which C10 must tell apart.
ParseFailedKeepsConfig(cfg) == [cfg |-> cfg, err |-> BuildErr("cannot parse data for tlsCAFile", NoErr)]
ParseFailed(cfg) == [cfg |-> NilConfig, err |-> BuildErr("cannot parse data for tlsCAFile", NoErr)]

\* The return values of GetServerTLSConfig (l.15-60), with what it leaves in
\* the captured c and err, when the cert and key files hold certPEM and
\* keyPEM and reading tlsCAFile gives caRead.
BuildResult(tlsCAFile, tlsCipherSuites, caRead, certPEM, keyPEM) ==
    LET ld == LoadX509KeyPair(certPEM, keyPEM)
        cs == collectCipherSuites(tlsCipherSuites)
        cfg0 == NewConfig(cs.cipherSuites)
        cfg1 == [cfg0 EXCEPT !.ClientAuth = "RequireAndVerifyClientCert"]
        ap == AppendCertsFromPEM(NewCertPool, caRead.data)
    IN  IF ld.err # NoErr
        THEN [cfg |-> NilConfig, err |-> BuildErr("cannot load TLS cert", ld.err),
              c |-> ld.c, cerr |-> ld.err]
        ELSE IF cs.err # NoErr
        THEN [cfg |-> NilConfig, err |-> BuildErr("cannot use TLS cipher suites", cs.err),
              c |-> ld.c, cerr |-> cs.err]
        ELSE IF MTLSWanted(tlsCAFile)
        THEN IF caRead.failed
             THEN [cfg |-> NilConfig, err |-> BuildErr("cannot read tlsCAFile", NoErr),
                   c |-> ld.c, cerr |-> NoErr]
             ELSE IF ~ap.ok
             THEN ParseFailed(cfg1) @@ [c |-> ld.c, cerr |-> NoErr]
             ELSE [cfg |-> WithClientCAs(cfg1, ap.cp), err |-> NoBuildErr,
                   c |-> ld.c, cerr |-> NoErr]
        ELSE [cfg |-> cfg0, err |-> NoBuildErr, c |-> ld.c, cerr |-> NoErr]

\* ------------------------------------------------------------------ state

VARIABLES
    now,            \* fasttime.UnixTimestamp(): the clock, in seconds
    certFile,       \* what the file tlsCertFile holds
    keyFile,        \* what the file tlsKeyFile holds
    args,           \* the arguments of the last GetServerTLSConfig call
    cfg,            \* the *tls.Config the last GetServerTLSConfig call returned
    berr,           \* the error it returned
    certLock,       \* l.16: the goroutine holding the mutex, or "free"
    certDeadline,   \* l.17
    cert,           \* l.18: "nil" or "&c", the only address it is ever given
    c,              \* l.19: the tls.Certificate variable the closure captures
    err,            \* l.19: the error variable the closure captures
    pc,             \* where each goroutine is in GetCertificate
    inv,            \* history: what each goroutine's current invocation saw
    ret,            \* what each goroutine's last invocation returned
    hist,           \* history of the configuration's loads and returns
    cs              \* a call of collectCipherSuites: its argument and result

vars == <<now, certFile, keyFile, args, cfg, berr, certLock, certDeadline, cert, c,
          err, pc, inv, ret, hist, cs>>

closure == <<certLock, certDeadline, cert, c, err>>
files == <<certFile, keyFile>>
built == <<args, cfg, berr>>

\* A load of the cert/key files: the second it took place in and how it went
\* ("builder": by GetServerTLSConfig; "ok", "failed": by GetCertificate).
NoLoad == [sec |-> 0, kind |-> "none"]

\* certPEM and keyPEM are what the cert and key files held during the call.
NoArgs == [tlsCAFile |-> "", tlsCipherSuites |-> << >>,
           caRead |-> [data |-> << >>, failed |-> TRUE],
           certPEM |-> NoFile, keyPEM |-> NoFile]

\* The history of one configuration.
NoHist ==
    [ invoked |-> FALSE,       \* some invocation has taken the lock
      builderCert |-> EmptyCert, \* the certificate GetServerTLSConfig loaded
      lastGood |-> EmptyCert,  \* the last certificate loaded successfully
      loadedAt |-> 0,          \* the second the last successful load took place in
      loadDoneAt |-> 0,        \* the second it completed in: read by l.39, or by the builder
      failed |-> FALSE,        \* the last load attempt failed
      okSec |-> 0,             \* the last clock read of the last invocation that returned a certificate
      okCert |-> "nil",        \* the pointer it returned
      prevLoad |-> NoLoad,     \* the last two loads
      lastLoad |-> NoLoad ]

\* What an invocation saw (all zero until its check of l.34).
NoInv ==
    [ chk |-> 0,               \* the clock read by l.34
      deadline |-> 0,          \* certDeadline at l.34
      cached |-> EmptyCert,    \* c at l.34
      first |-> FALSE,         \* this is the configuration's first invocation
      sameSec |-> FALSE,       \* an earlier invocation returned a certificate having last read this second
      afterFail |-> FALSE,     \* the last load attempt before it had failed
      loadedAt |-> 0,          \* hist.loadedAt at l.34
      loadDoneAt |-> 0,        \* hist.loadDoneAt at l.34
      good |-> EmptyCert,      \* hist.lastGood at l.34
      waitedRead |-> "no",     \* it waited at l.32 while another invocation read the files:
                               \* "ok" or "failed", how the last such read went
      last |-> 0,              \* its last clock read (l.34 or l.39)
      loads |-> 0,             \* how many times it read the files
      readCert |-> NoFile,     \* what it read from them
      readKey |-> NoFile ]

\* A goroutine that has not returned from GetCertificate yet.
NoRet == [returned |-> FALSE, cert |-> "nil", err |-> NoErr, val |-> EmptyCert]

\* The tls.Certificate a *tls.Certificate points to.
Deref(ptr) == IF ptr = "&c" THEN c ELSE EmptyCert

NoCall == [called |-> FALSE, definedCipherSuites |-> << >>,
           cipherSuites |-> << >>, err |-> NoErr]

Init ==
    /\ now = 1
    /\ \E f \in FileStates : certFile = f[1] /\ keyFile = f[2]
    /\ args = NoArgs
    /\ cfg = NilConfig
    /\ berr = NoBuildErr
    /\ certLock = "free"
    /\ certDeadline = 0
    /\ cert = "nil"
    /\ c = EmptyCert
    /\ err = NoErr
    /\ pc = [p \in Procs |-> "idle"]
    /\ inv = [p \in Procs |-> NoInv]
    /\ ret = [p \in Procs |-> NoRet]
    /\ hist = NoHist
    /\ cs = NoCall

\* ------------------------------------------------------------ environment

\* The ticker of fasttime advances the clock by a second (the clock is taken
\* never to step back).
Tick ==
    /\ now < MaxClock
    /\ now' = now + 1
    /\ UNCHANGED <<files, built, closure, pc, inv, ret, hist, cs>>

\* Somebody replaces, removes or corrupts the cert and key files.
WriteFiles(certPEM, keyPEM) ==
    /\ <<certPEM, keyPEM>> # <<certFile, keyFile>>
    /\ certFile' = certPEM
    /\ keyFile' = keyPEM
    /\ UNCHANGED <<now, built, closure, pc, inv, ret, hist, cs>>

\* ------------------------------------------------- GetServerTLSConfig

\* GetServerTLSConfig(tlsCAFile, tlsCertFile, tlsKeyFile, tlsCipherSuites)
\* (l.15-60), caRead being what reading tlsCAFile gives.  Called while no
\* configuration is in service; it is called once, at startup.
GetServerTLSConfig(tlsCAFile, tlsCipherSuites, caRead) ==
    LET r == BuildResult(tlsCAFile, tlsCipherSuites, caRead, certFile, keyFile) IN
    /\ cfg.nil /\ berr = NoBuildErr
    /\ args' = [tlsCAFile |-> tlsCAFile, tlsCipherSuites |-> tlsCipherSuites,
                caRead |-> caRead, certPEM |-> certFile, keyPEM |-> keyFile]
    /\ cfg' = r.cfg
    /\ berr' = r.err
    /\ certLock' = "free"
    /\ certDeadline' = 0
    /\ c' = r.c
    /\ err' = r.cerr
    /\ cert' = IF r.cerr = NoErr THEN "&c" ELSE "nil"     \* l.27
    /\ hist' = IF r.cfg.nil THEN NoHist
               ELSE [NoHist EXCEPT !.builderCert = r.c, !.lastGood = r.c,
                                   !.loadedAt = now, !.loadDoneAt = now,
                                   !.lastLoad = [sec |-> now, kind |-> "builder"]]
    /\ UNCHANGED <<now, files, pc, inv, ret, cs>>

\* ----------------------------------------------------- GetCertificate

\* The test of l.34.  StaleAlways compares the clock with zero instead of
\* the deadline, which C6 must tell apart.
StaleAlways(t, deadline) == t > 0
Stale(t, deadline) == t > deadline

\* The deadline l.39 sets when the clock reads t.  DeadlineUnset leaves the
\* deadline at zero and DeadlineLate adds two seconds, which C1 and C2 must
\* tell apart.
DeadlineUnset(t) == 0
DeadlineLate(t) == t + 2
NextDeadline(t) == t + 1

\* The error of l.37.
CertErr(cause) == [msg |-> "cannot load TLS cert", name |-> NoName]

\* What l.37 returns when the load has failed: no certificate, and the error.
\* FailedLoadServesCache falls back to the cached pointer without an error,
\* which C4 must tell apart; FailedLoadReturnsBoth returns the cached pointer
\* with the error, which C16 must tell apart.
FailedLoadReturnsBoth(ptr, cause) == [returned |-> TRUE, cert |-> ptr, err |-> CertErr(cause), val |-> Deref(ptr)]
FailedLoadServesCache(ptr, cause) == [returned |-> TRUE, cert |-> ptr, err |-> NoErr, val |-> Deref(ptr)]
FailedLoadReturn(ptr, cause) == [returned |-> TRUE, cert |-> "nil", err |-> CertErr(cause), val |-> EmptyCert]

\* What l.42 returns: the pointer in cert; val is the certificate it points
\* to at the moment of the return.
PlainReturn(ptr) == [returned |-> TRUE, cert |-> ptr, err |-> NoErr, val |-> Deref(ptr)]

\* certLock.Lock() (l.32) goes through when nobody holds the mutex.
\* LockUnguarded lets it through always, which C13 and C14 must tell apart.
LockUnguarded(holder) == TRUE
CanLock(holder) == holder = "free"

\* The deferred certLock.Unlock() (l.33), run on every return.  UnlockMissing
\* leaves the mutex held, which C15 must tell apart.
UnlockMissing(holder) == holder
Unlock(holder) == "free"

\* The handshake layer of goroutine p calls the callback of a configuration
\* in service.
Call(p) ==
    /\ ~cfg.nil
    /\ pc[p] = "idle"
    /\ pc' = [pc EXCEPT ![p] = "lock"]
    /\ inv' = [inv EXCEPT ![p] = NoInv]
    /\ ret' = [ret EXCEPT ![p] = NoRet]
    /\ UNCHANGED <<now, files, built, closure, hist, cs>>

\* l.32: certLock.Lock()
Lock(p) ==
    /\ pc[p] = "lock"
    /\ CanLock(certLock)
    /\ certLock' = p
    /\ pc' = [pc EXCEPT ![p] = "check"]
    /\ inv' = [inv EXCEPT ![p].first = ~hist.invoked]
    /\ hist' = [hist EXCEPT !.invoked = TRUE]
    /\ UNCHANGED <<now, files, built, certDeadline, cert, c, err, ret, cs>>

\* l.34: if fasttime.UnixTimestamp() > certDeadline
Check(p) ==
    /\ pc[p] = "check"
    /\ pc' = [pc EXCEPT ![p] = IF Stale(now, certDeadline) THEN "load" ELSE "return"]
    /\ inv' = [inv EXCEPT ![p] =
                 [@ EXCEPT !.chk = now, !.last = now, !.deadline = certDeadline,
                           !.cached = c, !.sameSec = (hist.okSec = now),
                           !.afterFail = hist.failed, !.loadedAt = hist.loadedAt,
                           !.loadDoneAt = hist.loadDoneAt, !.good = hist.lastGood]]
    /\ UNCHANGED <<now, files, built, closure, ret, hist, cs>>

\* l.35: c, err = tls.LoadX509KeyPair(tlsCertFile, tlsKeyFile)
Load(p) ==
    LET r == LoadX509KeyPair(certFile, keyFile)
        ok == r.err = NoErr
        ld == [sec |-> now, kind |-> IF ok THEN "ok" ELSE "failed"]
    IN
    /\ pc[p] = "load"
    /\ c' = r.c
    /\ err' = r.err
    /\ pc' = [pc EXCEPT ![p] = "loaded"]
    /\ inv' = [q \in Procs |->
                 IF q = p
                 THEN [inv[q] EXCEPT !.loads = @ + 1, !.readCert = certFile,
                                     !.readKey = keyFile]
                 ELSE IF pc[q] = "lock"
                 THEN [inv[q] EXCEPT !.waitedRead = IF ok THEN "ok" ELSE "failed"]
                 ELSE inv[q]]
    /\ hist' = [hist EXCEPT !.prevLoad = hist.lastLoad, !.lastLoad = ld,
                            !.failed = ~ok,
                            !.lastGood = IF ok THEN r.c ELSE @,
                            !.loadedAt = IF ok THEN now ELSE @]
    /\ UNCHANGED <<now, files, built, certLock, certDeadline, cert, ret, cs>>

\* l.36-38: the load failed; return nil and the error (the deferred Unlock
\* of l.33 runs).
LoadFailed(p) ==
    /\ pc[p] = "loaded"
    /\ err # NoErr
    /\ ret' = [ret EXCEPT ![p] = FailedLoadReturn(cert, err)]
    /\ certLock' = Unlock(certLock)
    /\ pc' = [pc EXCEPT ![p] = "idle"]
    /\ UNCHANGED <<now, files, built, certDeadline, cert, c, err, inv, hist, cs>>

\* l.39-40: certDeadline = fasttime.UnixTimestamp() + 1; cert = &c
Store(p) ==
    /\ pc[p] = "loaded"
    /\ err = NoErr
    /\ certDeadline' = NextDeadline(now)
    /\ cert' = "&c"
    /\ pc' = [pc EXCEPT ![p] = "return"]
    /\ inv' = [inv EXCEPT ![p].last = now]
    /\ hist' = [hist EXCEPT !.loadDoneAt = now]
    /\ UNCHANGED <<now, files, built, certLock, c, err, ret, cs>>

\* l.42: return cert, nil (the deferred Unlock of l.33 runs)
Return(p) ==
    /\ pc[p] = "return"
    /\ ret' = [ret EXCEPT ![p] = PlainReturn(cert)]
    /\ certLock' = Unlock(certLock)
    /\ pc' = [pc EXCEPT ![p] = "idle"]
    /\ hist' = [hist EXCEPT !.okSec = IF cert # "nil" THEN inv[p].last ELSE @,
                            !.okCert = IF cert # "nil" THEN cert ELSE @]
    /\ UNCHANGED <<now, files, built, certDeadline, cert, c, err, inv, cs>>

\* GetCertificate (l.31-43), step by step.
GetCertificate(p) ==
    \/ Call(p)
    \/ Lock(p)
    \/ Check(p)
    \/ Load(p)
    \/ LoadFailed(p)
    \/ Store(p)
    \/ Return(p)

\* ---------------------------------------------------------- specifications

\* The calls of GetServerTLSConfig made while GetCertificate is explored:
\* one that succeeds when the cert and key files are valid, and one whose
\* CA bundle cannot be read.
ServedArgs ==
    { [tlsCAFile |-> "", tlsCipherSuites |-> <<tls_aes_128_gcm_sha256>>,
       caRead |-> [data |-> << >>, failed |-> TRUE]],
      [tlsCAFile |-> "ca.pem", tlsCipherSuites |-> << >>,
       caRead |-> [data |-> << >>, failed |-> TRUE]] }

\* Every call of GetServerTLSConfig that names at most one cipher suite.
AllArgs ==
    [tlsCAFile : {"", "ca.pem"},
     tlsCipherSuites : {l \in SuiteLists : Len(l) <= 1},
     caRead : CAReads]

Next ==
    \/ Tick
    \/ \E f \in FileStates : WriteFiles(f[1], f[2])
    \/ \E a \in ServedArgs : GetServerTLSConfig(a.tlsCAFile, a.tlsCipherSuites, a.caRead)
    \/ \E p \in Procs : GetCertificate(p)

\* The configuration and the handshakes it serves.
Spec == Init /\ [][Next]_vars

\* The same program under the scheduling the runtime gives it: a goroutine
\* inside the section of l.34-l.42 keeps running (every file load comes back),
\* and a goroutine waiting in certLock.Lock() (l.32) gets the mutex if it is
\* released again and again (sync.Mutex hands a starving waiter the lock).
\* Nothing obliges the handshake layer to call, the clock to tick or the files
\* to change.
Fairness ==
    \A p \in Procs :
        /\ WF_vars(Check(p) \/ Load(p) \/ LoadFailed(p) \/ Store(p) \/ Return(p))
        /\ SF_vars(Lock(p))

SpecFair == Init /\ [][Next]_vars /\ Fairness

NextBuild ==
    \/ \E f \in FileStates : WriteFiles(f[1], f[2])
    \/ \E a \in AllArgs : GetServerTLSConfig(a.tlsCAFile, a.tlsCipherSuites, a.caRead)

\* GetServerTLSConfig on every argument.
SpecBuild == Init /\ [][NextBuild]_vars

\* A call of collectCipherSuites.
Resolve(definedCipherSuites) ==
    LET r == collectCipherSuites(definedCipherSuites) IN
    /\ ~cs.called
    /\ cs' = [called |-> TRUE, definedCipherSuites |-> definedCipherSuites,
              cipherSuites |-> r.cipherSuites, err |-> r.err]
    /\ UNCHANGED <<now, files, built, closure, pc, inv, ret, hist>>

NextCipher == \E l \in SuiteLists : Resolve(l)

\* collectCipherSuites on every list of names.
SpecCipher == Init /\ [][NextCipher]_vars

\* ------------------------------------------------------------------ claims

Range(f) == {f[i] : i \in DOMAIN f}

\* Two characters are the same letter up to case.
SameLetter(a, b) ==
    a = b \/ \E k \in 1..Len(Upper) : {a, b} = {Upper[k], Lower[k]}

\* Two names match case-insensitively.
EqualFold(a, b) ==
    Len(a) = Len(b) /\ \A i \in 1..Len(a) : SameLetter(a[i], b[i])

\* The platform supports a suite of this name, up to case.
Recognized(name) == \E s \in Range(supportedCipherSuites) : EqualFold(s.Name, name)

\* The identifier of the supported suite of this name, up to case.
IdOf(name) == (CHOOSE s \in Range(supportedCipherSuites) : EqualFold(s.Name, name)).ID

\* The cert and key files hold a certificate and the key that belongs to it.
ValidPair(certPEM, keyPEM) == certPEM \in Versions /\ keyPEM = certPEM

\* C7: when every requested name matches a supported suite case-insensitively,
\* collectCipherSuites returns no error and as many identifiers as names,
\* the i-th being the identifier of the i-th name (the empty list gives the
\* empty list).
C7_ResolvesInOrder ==
    (cs.called /\ \A i \in 1..Len(cs.definedCipherSuites) :
                       Recognized(cs.definedCipherSuites[i]))
    => /\ cs.err = NoErr
       /\ Len(cs.cipherSuites) = Len(cs.definedCipherSuites)
       /\ \A i \in 1..Len(cs.definedCipherSuites) :
              cs.cipherSuites[i] = IdOf(cs.definedCipherSuites[i])

\* A lower-case, a mixed-case and a repeated name have been resolved.
C7_Witness ==
    /\ cs.called
    /\ cs.definedCipherSuites =
           <<tls_aes_128_gcm_sha256, Tls_Aes_256_Gcm_Sha384, TLS_AES_128_GCM_SHA256>>
    /\ cs.cipherSuites = <<4865, 4866, 4865>>
    /\ cs.err = NoErr

\* C8: when some requested name matches no supported suite,
\* collectCipherSuites returns the unsupported-cipher-suite error naming the
\* first such name, and no identifiers.
C8_FailsOnFirstUnknown ==
    (cs.called /\ \E i \in 1..Len(cs.definedCipherSuites) :
                       ~Recognized(cs.definedCipherSuites[i]))
    => LET first == CHOOSE i \in 1..Len(cs.definedCipherSuites) :
                       /\ ~Recognized(cs.definedCipherSuites[i])
                       /\ \A j \in 1..(i - 1) : Recognized(cs.definedCipherSuites[j])
       IN  /\ cs.err = UnsupportedErr(cs.definedCipherSuites[first])
           /\ cs.cipherSuites = << >>

\* A list with a recognized name before two unrecognized ones has been refused.
C8_Witness ==
    /\ cs.called
    /\ cs.definedCipherSuites =
           <<TLS_AES_128_GCM_SHA256, bogus_suite, TLS_RSA_WITH_RC4_128_SHA>>
    /\ cs.err.name = bogus_suite
    /\ cs.cipherSuites = << >>

\* GetServerTLSConfig has returned.
BuilderReturned == ~cfg.nil \/ berr # NoBuildErr

\* The failures of a GetServerTLSConfig call, from its arguments and from
\* what the files held.
LoadFails == ~ValidPair(args.certPEM, args.keyPEM)
CipherFails == \E i \in 1..Len(args.tlsCipherSuites) : ~Recognized(args.tlsCipherSuites[i])
CAUnreadable == args.tlsCAFile # "" /\ args.caRead.failed
CAWithoutCert ==
    /\ args.tlsCAFile # ""
    /\ ~args.caRead.failed
    /\ Range(args.caRead.data) \cap CACerts = {}

\* C9: a configuration GetServerTLSConfig returns requires and verifies
\* client certificates, with a non-empty CA pool attached, exactly when
\* tlsCAFile is not empty; with an empty tlsCAFile it asks for no client
\* certificate and has no CA pool.
C9_ClientAuthByCAPath ==
    ~cfg.nil =>
        /\ (args.tlsCAFile # "") <=>
               /\ cfg.ClientAuth = "RequireAndVerifyClientCert"
               /\ ~cfg.ClientCAs.nil
               /\ cfg.ClientCAs.certs # {}
        /\ (args.tlsCAFile = "") =>
               /\ cfg.ClientAuth = "NoClientCert"
               /\ cfg.ClientCAs.nil

\* A configuration built from a bundle of a non-certificate block and a CA
\* certificate.
C9_Witness ==
    /\ ~cfg.nil
    /\ args.tlsCAFile = "ca.pem"
    /\ args.caRead.data = <<"junk", "CA1">>
    /\ cfg.ClientAuth = "RequireAndVerifyClientCert"
    /\ cfg.ClientCAs.certs = {"CA1"}

\* C10: GetServerTLSConfig returns a configuration or an error, never both
\* and never neither: the error is the first of cert/key load failure,
\* unsupported cipher suite, unreadable CA bundle, CA bundle without a
\* parseable certificate; with an error the configuration is nil, and
\* without one it is complete.
C10_ConfigOrFirstError ==
    BuilderReturned =>
        /\ cfg.nil <=> berr # NoBuildErr
        /\ berr.msg = IF LoadFails THEN "cannot load TLS cert"
                      ELSE IF CipherFails THEN "cannot use TLS cipher suites"
                      ELSE IF CAUnreadable THEN "cannot read tlsCAFile"
                      ELSE IF CAWithoutCert THEN "cannot parse data for tlsCAFile"
                      ELSE "nil"
        /\ berr # NoBuildErr => cfg = NilConfig
        /\ berr = NoBuildErr =>
               /\ cfg.MinVersion = "VersionTLS12"
               /\ cfg.PreferServerCipherSuites
               /\ Len(cfg.CipherSuites) = Len(args.tlsCipherSuites)
               /\ cert = "&c"
               /\ c = [Certificate |-> args.certPEM, PrivateKey |-> args.keyPEM]

\* A call whose CA bundle holds no certificate has returned that error and
\* no configuration.
C10_Witness ==
    /\ BuilderReturned
    /\ args.tlsCAFile = "ca.pem"
    /\ args.caRead.data = <<"junk">>
    /\ berr.msg = "cannot parse data for tlsCAFile"
    /\ cfg.nil

\* Goroutine p's last invocation has returned.
Returned(p) == pc[p] = "idle" /\ ret[p].returned

\* The certificate an invocation read from the files, when they held a
\* valid pair.
ReadPair(p) == [Certificate |-> inv[p].readCert, PrivateKey |-> inv[p].readKey]
ReadValid(p) == inv[p].loads > 0 /\ ValidPair(inv[p].readCert, inv[p].readKey)
ReadInvalid(p) == inv[p].loads > 0 /\ ~ValidPair(inv[p].readCert, inv[p].readKey)

\* C1: an invocation whose clock read (l.34) gives the second that was the
\* last clock read of an earlier invocation that returned a certificate does
\* not read the files and returns the same pointer as that invocation.
C1_SameSecondServedFromCache ==
    \A p \in Procs :
        (Returned(p) /\ inv[p].sameSec)
        => /\ inv[p].loads = 0
           /\ ret[p].err = NoErr
           /\ ret[p].cert # "nil"
           /\ ret[p].cert = hist.okCert

\* A second invocation in the same second has been served from the cache.
C1_Witness ==
    \E p \in Procs :
        /\ Returned(p) /\ inv[p].sameSec
        /\ inv[p].loads = 0
        /\ ret[p].cert = "&c"
        /\ ret[p].val \in {[Certificate |-> v, PrivateKey |-> v] : v \in Versions}

\* C2 as claimed: an invocation made when the clock is at least one second
\* past the second of the last successful load (clock >= t + 1) re-reads the
\* files and returns the certificate they hold.
C2_ReloadAfterOneSecond ==
    \A p \in Procs :
        (Returned(p) /\ inv[p].loadedAt > 0 /\ inv[p].chk >= inv[p].loadedAt + 1)
        => /\ inv[p].loads = 1
           /\ ReadValid(p) => (ret[p].err = NoErr /\ ret[p].val = ReadPair(p))

\* C2, amended: an invocation whose clock read (l.34) is at least two seconds
\* past the second t in which the last successful load completed (t is the
\* clock read of l.39, the deadline being t + 1; for the builder's load, the
\* second of the call) re-reads the files and, when they hold a valid pair,
\* returns that pair.
C2_ReloadAfterTwoSeconds ==
    \A p \in Procs :
        (Returned(p) /\ inv[p].loadDoneAt > 0 /\ inv[p].chk >= inv[p].loadDoneAt + 2)
        => /\ inv[p].loads = 1
           /\ ReadValid(p) => (ret[p].err = NoErr /\ ret[p].val = ReadPair(p))

\* Two seconds after a load by the callback, an invocation has replaced the
\* cached certA by the certB found on disk.
C2_Witness ==
    \E p \in Procs :
        /\ Returned(p)
        /\ inv[p].deadline > 0
        /\ inv[p].chk >= inv[p].loadDoneAt + 2
        /\ inv[p].cached = [Certificate |-> "certA", PrivateKey |-> "certA"]
        /\ inv[p].loads = 1
        /\ ret[p].val = [Certificate |-> "certB", PrivateKey |-> "certB"]

\* C3 as claimed: the first invocation on a configuration returns the
\* certificate GetServerTLSConfig loaded, and no error, whatever the files
\* hold by then.
C3_FirstServesBuilderCert ==
    \A p \in Procs :
        (Returned(p) /\ inv[p].first)
        => /\ ret[p].err = NoErr
           /\ ret[p].cert # "nil"
           /\ ret[p].val = hist.builderCert

\* C4: an invocation whose load fails returns the error and no certificate;
\* an invocation that comes after a failed load attempt finds the cache
\* stale again, re-reads the files and, when they hold a valid pair, returns
\* that pair.
C4_FailedReloadIsRetried ==
    \A p \in Procs :
        Returned(p) =>
            /\ ReadInvalid(p) => (ret[p].cert = "nil" /\ ret[p].err # NoErr)
            /\ inv[p].afterFail => inv[p].chk > inv[p].deadline
            /\ (inv[p].afterFail /\ inv[p].chk > inv[p].deadline)
               => /\ inv[p].loads = 1
                  /\ ReadValid(p) => /\ ret[p].err = NoErr
                                     /\ ret[p].cert # "nil"
                                     /\ ret[p].val = ReadPair(p)

\* After a failed reload, an invocation has loaded and returned the
\* corrected certificate.
C4_Witness ==
    \E p \in Procs :
        /\ Returned(p)
        /\ inv[p].afterFail /\ ~inv[p].first
        /\ inv[p].cached = EmptyCert
        /\ inv[p].loads = 1
        /\ ret[p].err = NoErr
        /\ ret[p].val = [Certificate |-> "certB", PrivateKey |-> "certB"]

\* C5 as claimed: while the last load attempt is one that failed, the
\* certificate the cached pointer points to is the last one loaded
\* successfully, and the deadline is what the failing invocation found.
C5_FailedReloadKeepsCache ==
    \A p \in Procs :
        (Returned(p) /\ ret[p].err # NoErr /\ hist.failed)
        => /\ cert = "&c"
           /\ Deref(cert) = hist.lastGood
           /\ certDeadline = inv[p].deadline

\* C6 as claimed: no two loads of the files of one configuration, the
\* builder's and the failed ones included, take place in the same second
\* (the clock never steps back, so two loads in one second have only loads
\* of that second between them: it is enough to look at consecutive loads).
C6_OneLoadPerSecond ==
    (hist.prevLoad # NoLoad /\ hist.lastLoad # NoLoad)
    => hist.prevLoad.sec # hist.lastLoad.sec

\* C6, amended: after a load by GetCertificate that succeeded, no load takes
\* place in the same second.
C6_NoLoadAfterSuccessInSameSecond ==
    (hist.prevLoad.kind = "ok" /\ hist.lastLoad # NoLoad)
    => hist.prevLoad.sec # hist.lastLoad.sec

\* A successful load by the callback has been followed by another load, two
\* seconds later.
C6_Witness ==
    /\ hist.prevLoad.kind = "ok"
    /\ hist.lastLoad.kind \in {"ok", "failed"}
    /\ hist.lastLoad.sec = hist.prevLoad.sec + 2


\* ---------------------------------------------------------------------------
\* Concurrency of the callback

\* The invocations inside the section of l.34-l.42, between Lock and Unlock.
InSection == {p \in Procs : pc[p] \in {"check", "load", "loaded", "return"}}

\* C11 (as stated): the certificate a returned reference points at keeps the
\* content it had at the return for as long as the handshake holds it (until
\* the goroutine's next invocation), whatever reloads happen meanwhile.
\* l.35 assigns the captured variable c in place and cert is always &c, so
\* a later reload changes the content under the handshake.
C11_ReturnedCertKeepsContent ==
    \A p \in Procs :
        (Returned(p) /\ ret[p].cert # "nil") => Deref(ret[p].cert) = ret[p].val

\* C12 (as stated): certDeadline is zero only if no certificate was ever
\* loaded for the configuration, and otherwise is the clock second of the last
\* successful load plus 1.  The builder loads at l.19 and leaves certDeadline
\* zero, and l.39 reads the clock after the load.
C12_DeadlineIsLastLoadPlusOne ==
    (~cfg.nil) =>
        /\ certDeadline = 0 => hist.loadedAt = 0
        /\ certDeadline # 0 => certDeadline = hist.loadedAt + 1

\* C13: the mutex of l.32 admits one invocation at a time to the section of
\* l.34-l.42, and it is the holder of certLock; and an invocation that waited
\* at l.32 while another one's file read succeeded, and that reads the clock
\* second in which that reload completed, reads no file and returns the
\* certificate the other one cached.
C13_OneReloadForConcurrentCallers ==
    /\ Cardinality(InSection) <= 1
    /\ \A p \in InSection : certLock = p
    /\ \A p \in Procs :
           (/\ Returned(p)
            /\ inv[p].waitedRead = "ok"
            /\ inv[p].chk = inv[p].loadDoneAt)
           => /\ inv[p].loads = 0
              /\ ret[p].err = NoErr
              /\ ret[p].cert = "&c"
              /\ ret[p].val = inv[p].good
              /\ inv[p].good # EmptyCert

\* C13's case: a goroutine waited behind a successful reload and was served
\* from the cache in the same second.
C13_Witness ==
    \E p \in Procs :
        /\ Returned(p)
        /\ inv[p].waitedRead = "ok"
        /\ inv[p].chk = inv[p].loadDoneAt
        /\ inv[p].loads = 0
        /\ ret[p].cert = "&c"

\* C14 (as stated): an invocation that reads no file itself never waited at
\* l.32 while another invocation's file read was in progress.  certLock is
\* held across l.35, so it does.
C14_HitNeverWaitsForRead ==
    \A p \in Procs :
        (Returned(p) /\ inv[p].loads = 0) => inv[p].waitedRead = "no"

\* C14 (amended): while an invocation's file read is in progress, every other
\* goroutine is either outside the callback or waiting at l.32, where it
\* cannot proceed; a goroutine outside the callback can still call.
C14_ReadBlocksOtherCallers ==
    \A q \in Procs :
        pc[q] = "load" =>
            \A p \in Procs \ {q} :
                /\ pc[p] \in {"idle", "lock"}
                /\ pc[p] = "lock" => ~ENABLED Lock(p)
                /\ pc[p] = "idle" /\ ~cfg.nil => ENABLED Call(p)

\* C14's case: one goroutine is reading the files and the other one has called
\* the callback.
C14_Witness ==
    \E q \in Procs : \E p \in Procs \ {q} : pc[q] = "load" /\ pc[p] = "lock"

\* C15: whenever no invocation is inside the section the mutex is free, and,
\* every file load coming back, every invocation returns: a goroutine that
\* has called the callback gets back to the handshake, also after another
\* one's failed reload.
C15_LockReleasedOnEveryReturn ==
    /\ [](InSection = {} => certLock = "free")
    /\ \A p \in Procs : (pc[p] # "idle") ~> Returned(p)

\* C15's case: a goroutine has returned the error of a failed reload, the
\* mutex is free, and the other one, which called meanwhile, is free to go on.
C15_Witness ==
    \E q \in Procs : \E p \in Procs \ {q} :
        /\ Returned(q) /\ ret[q].err # NoErr
        /\ InSection = {} /\ certLock = "free"
        /\ pc[p] = "lock"

\* C16: a returned invocation hands back either an error and no reference, or
\* a reference and no error.  The error comes only from a load that this
\* invocation made and that failed; without error the reference is non-null
\* and, at the return, holds the result of the most recent successful load:
\* the pair this invocation read, or the last one loaded before its test of
\* l.34 when it read no file.
C16_CertificateOrError ==
    \A p \in Procs :
        Returned(p) =>
            /\ (ret[p].err # NoErr) <=> (ret[p].cert = "nil")
            /\ ret[p].err # NoErr => ReadInvalid(p)
            /\ ret[p].err = NoErr =>
                   /\ ret[p].cert # "nil"
                   /\ ret[p].val # EmptyCert
                   /\ ret[p].val = IF inv[p].loads > 0 THEN ReadPair(p) ELSE inv[p].good

\* C16's case: one goroutine returned the error of its failed load, the other
\* one a certificate from the cache.
C16_Witness ==
    \E q \in Procs : \E p \in Procs \ {q} :
        /\ Returned(q) /\ ret[q].err # NoErr /\ ret[q].cert = "nil"
        /\ Returned(p) /\ ret[p].err = NoErr /\ inv[p].loads = 0
        /\ ret[p].val = inv[p].good

====
